---------------------------- MODULE Spec2Model ----------------------------
(***************************************************************************)
(* ODrive CAN interface (Firmware/communication/interface_can.cpp).        *)
(*                                                                         *)
(* The model follows the worker thread can_server_thread, the transport    *)
(* shim it calls (write, read, available), the receive interrupt handler,  *)
(* start_can_server and set_node_id.  The bxCAN peripheral and the bus are *)
(* modelled by what the code can observe of them: a receive FIFO filled by *)
(* the bus, three transmit mailboxes emptied by the bus, an interrupt      *)
(* enable bit and the kernel tick.                                         *)
(*                                                                         *)
(* The header comment of the file states four rules (a-d) in terms of      *)
(* events: a heartbeat received, a heartbeat sent and ACK'd, a heartbeat   *)
(* sent and not ACK'd.  The code stores none of these events, so the model *)
(* records the tick of each in history variables (rxHbAt, txOkAt,          *)
(* txFailAt); no action of the program reads them.                         *)
(***************************************************************************)
EXTENDS Integers, Sequences, FiniteSets, TLC

(***************************************************************************)
(* Bounds of the model.                                                    *)
(***************************************************************************)
\* node IDs 0 .. NumIds-1 stand for the uint8_t ID space
NumIds == 2
\* frames the bus delivers from outside the modelled nodes
MaxRx == 2
\* depth of a receive FIFO
MaxFifo == 2
\* ticks between two observations of the clock
TickQuantum == 100
\* ticks the clock advances in steps of TickQuantum
MaxElapsed == 200
\* ticks the clock advances in the two-node specification
MaxElapsedTwo == 100
\* width of the tick counter in the model (the firmware's is 32 bits)
TickBits == 12
\* frames the bus delivers in the burst specification
MaxBurst == 3

(***************************************************************************)
(* Constants of the program.                                               *)
(***************************************************************************)
\* heartbeat.id = 0x700 + config_.node_id
HEARTBEAT_BASE == 1792
\* now - lastHeartbeatTick >= 100
HEARTBEAT_PERIOD == 100
\* osSemaphoreWait(sem_can, 10)
SEM_WAIT_TICKS == 10
\* "within the last second" of rules a and b, in kernel ticks
LEASE_WINDOW == 1000
\* HAL_CAN_TxMailbox0..2: the peripheral has three transmit mailboxes
NumTxMailboxes == 3
\* an 8 byte unique serial number as payload
HEARTBEAT_LEN == 8
\* CAN_BAUD_125K .. CAN_BAUD_1000K
CAN_BAUD_125K == 125000
CAN_BAUD_250K == 250000
CAN_BAUD_500K == 500000
CAN_BAUD_1000K == 1000000

Nodes == {"A", "B"}
\* the devices the interfaces are built into
Devices == {"X", "Y"}
NodeIds == 0 .. (NumIds - 1)
\* no event recorded / the event recorded is at least a second old
None == 0 - 1
Expired == 0 - 2
TickModulus == 2 ^ TickBits

VARIABLES
    tick,               \* osKernelSysTick()
    rxCount,            \* frames delivered from outside so far
    pc,                 \* position of each node's worker
    config_node_id,     \* config_.node_id
    config_baud,        \* config_.baud
    Prescaler,          \* handle_->Init.Prescaler
    thread_id_valid_,   \* thread_id_valid_
    device,             \* the device each interface is built into
    heartbeat_id,       \* heartbeat.id, a local of can_server_thread
    lastHeartbeatTick,  \* lastHeartbeatTick, a local of can_server_thread
    waitLeft,           \* ticks left of the pending osSemaphoreWait
    sem_can,            \* the global semaphore sem_can of each device
    halReady,           \* HAL_CAN_Init succeeded
    filterActive,       \* filter bank 0 configured
    canStarted,         \* HAL_CAN_Start succeeded
    itRxFifo0,          \* CAN_IT_RX_FIFO0_MSG_PENDING enabled
    itRxFifo1,          \* CAN_IT_RX_FIFO1_MSG_PENDING enabled
    fifo0,              \* receive FIFO 0
    fifo1,              \* receive FIFO 1
    mailbox,            \* pending transmit mailboxes
    rxHbAt,             \* history: tick of the last heartbeat read, per ID
    txOkAt,             \* history: tick of the last own heartbeat ACK'd, per ID
    txFailAt,           \* history: tick of the last own heartbeat not ACK'd, per ID
    sinceHeartbeat      \* history: ticks elapsed since lastHeartbeatTick was set

cfgVars == <<config_node_id, config_baud, Prescaler, thread_id_valid_, device>>
hwVars == <<halReady, filterActive, canStarted, itRxFifo0, itRxFifo1>>
thrVars == <<pc, heartbeat_id, lastHeartbeatTick, waitLeft>>
histVars == <<rxHbAt, txOkAt, txFailAt, sinceHeartbeat>>
vars == <<tick, rxCount, cfgVars, hwVars, thrVars, sem_can, fifo0, fifo1,
          mailbox, histVars>>

(***************************************************************************)
(* Tick arithmetic: unsigned, modulo the width of the counter.             *)
(***************************************************************************)
TickDiff(a, b) == (a - b) % TickModulus

TickAdd(a, d) == (a + d) % TickModulus

\* ticks since boot; the boot tick is 0
Elapsed == tick

(***************************************************************************)
(* Frames.                                                                 *)
(***************************************************************************)
\* the 8 byte unique serial number of a node
NodeSerial(n) == IF n = "A" THEN "serialA" ELSE "serialB"

\* a heartbeat message that takes its id from config_.node_id at each send
HeartbeatMsgLive(n) ==
    [id |-> HEARTBEAT_BASE + config_node_id[n], isExt |-> FALSE,
     len |-> HEARTBEAT_LEN, buf |-> "unset", from |-> "heartbeat"]

\* the heartbeat message of can_server_thread: only its id is ever written,
\* once, before the loop
HeartbeatMsg(n) ==
    [id |-> heartbeat_id[n], isExt |-> FALSE, len |-> HEARTBEAT_LEN,
     buf |-> "unset", from |-> "heartbeat"]

\* a heartbeat of another node claiming ID i
ForeignHeartbeat(i) ==
    [id |-> HEARTBEAT_BASE + i, isExt |-> FALSE, len |-> HEARTBEAT_LEN,
     buf |-> "serial"]

\* a regular frame of another node
ForeignRegular ==
    [id |-> 291, isExt |-> FALSE, len |-> 4, buf |-> "data"]

Inbound == {ForeignHeartbeat(i) : i \in NodeIds} \cup {ForeignRegular}

\* a heartbeat message: 8 bytes of payload under 0x700 + node ID
IsHeartbeat(f) ==
    /\ ~f.isExt
    /\ f.len = HEARTBEAT_LEN
    /\ f.id >= HEARTBEAT_BASE
    /\ f.id <= HEARTBEAT_BASE + 255

NodeIdOf(f) == f.id - HEARTBEAT_BASE

\* the frame as the bus carries it
OnWire(m) == [id |-> m.id, isExt |-> m.isExt, len |-> m.len, buf |-> m.buf]

(***************************************************************************)
(* The rules of the header comment, over the recorded events.              *)
(***************************************************************************)
\* an event recorded at tick t happened within the last second
Fresh(t) == t \notin {None, Expired} /\ TickDiff(tick, t) < LEASE_WINDOW

\* the record of an event d ticks later: once a second old it only says so
Expire(t, d) ==
    IF t \notin {None, Expired} /\ TickDiff(tick, t) + d >= LEASE_WINDOW
    THEN Expired ELSE t

\* rule a: a node ID is taken by others
is_taken(n, i) == Fresh(rxHbAt[n][i]) \/ Fresh(txFailAt[n][i])

\* rule b: a node ID may be considered self-assigned
is_self_held(n, i) == Fresh(txOkAt[n][i])

(***************************************************************************)
(* Initial state: the objects constructed, no server started.              *)
(***************************************************************************)
NoTimes == [n \in Nodes |-> [i \in NodeIds |-> None]]

\* every interface in a device of its own
OwnDevice == [n \in Nodes |-> IF n = "A" THEN "X" ELSE "Y"]

\* both interfaces in one device
SharedDevice == [n \in Nodes |-> "X"]

Constructed(dev) ==
    /\ tick = 0
    /\ device = dev
    /\ rxCount = 0
    /\ pc = [n \in Nodes |-> "new"]
    /\ config_node_id \in {[n \in Nodes |-> i] : i \in NodeIds}
    /\ config_baud = [n \in Nodes |-> CAN_BAUD_250K]
    /\ Prescaler = [n \in Nodes |-> 0]
    /\ thread_id_valid_ = [n \in Nodes |-> FALSE]
    /\ heartbeat_id = [n \in Nodes |-> 0]
    /\ lastHeartbeatTick = [n \in Nodes |-> 0]
    /\ waitLeft = [n \in Nodes |-> 0]
    /\ sem_can = [d \in Devices |-> 0]
    /\ halReady = [n \in Nodes |-> FALSE]
    /\ filterActive = [n \in Nodes |-> FALSE]
    /\ canStarted = [n \in Nodes |-> FALSE]
    /\ itRxFifo0 = [n \in Nodes |-> FALSE]
    /\ itRxFifo1 = [n \in Nodes |-> FALSE]
    /\ fifo0 = [n \in Nodes |-> <<>>]
    /\ fifo1 = [n \in Nodes |-> <<>>]
    /\ mailbox = [n \in Nodes |-> <<>>]
    /\ rxHbAt = NoTimes
    /\ txOkAt = NoTimes
    /\ txFailAt = NoTimes
    /\ sinceHeartbeat = [n \in Nodes |-> 0]

Init == Constructed(OwnDevice)

\* two interfaces constructed in one device
InitDevice == Constructed(SharedDevice)

(***************************************************************************)
(* The transport shim.                                                     *)
(***************************************************************************)
\* ODriveCAN::write: the message is queued if a transmit mailbox is free,
\* otherwise it is dropped; the caller is told nothing either way
write(mb, txmsg) ==
    IF NumTxMailboxes - Len(mb) > 0 THEN Append(mb, txmsg) ELSE mb

\* ODriveCAN::available
available(n) == Len(fifo0[n]) + Len(fifo1[n])

\* ODriveCAN::read: FIFO 0 first, then FIFO 1
read(n) == IF Len(fifo0[n]) > 0 THEN Head(fifo0[n]) ELSE Head(fifo1[n])

\* set_baud_rate with the break of its first case missing
set_baud_rateFallthrough(n, baudRate) ==
    CASE baudRate = CAN_BAUD_125K -> [Prescaler |-> 8, baud |-> baudRate]
      [] baudRate = CAN_BAUD_250K -> [Prescaler |-> 8, baud |-> baudRate]
      [] baudRate = CAN_BAUD_500K -> [Prescaler |-> 4, baud |-> baudRate]
      [] baudRate = CAN_BAUD_1000K -> [Prescaler |-> 2, baud |-> baudRate]
      [] OTHER -> [Prescaler |-> Prescaler[n], baud |-> config_baud[n]]

\* ODriveCAN::set_baud_rate: the prescaler and the stored rate it leaves
set_baud_rate(n, baudRate) ==
    CASE baudRate = CAN_BAUD_125K -> [Prescaler |-> 16, baud |-> baudRate]
      [] baudRate = CAN_BAUD_250K -> [Prescaler |-> 8, baud |-> baudRate]
      [] baudRate = CAN_BAUD_500K -> [Prescaler |-> 4, baud |-> baudRate]
      [] baudRate = CAN_BAUD_1000K -> [Prescaler |-> 2, baud |-> baudRate]
      [] OTHER -> [Prescaler |-> Prescaler[n], baud |-> config_baud[n]]

\* the rates set_baud_rate is called with
BaudInputs ==
    {0, 100000, CAN_BAUD_125K, CAN_BAUD_250K, CAN_BAUD_500K, 800000,
     CAN_BAUD_1000K, 1000001}

\* a call of set_baud_rate from outside the worker
SetBaudRate(n, baudRate) ==
    /\ LET b == set_baud_rate(n, baudRate)
       IN  /\ Prescaler' = [Prescaler EXCEPT ![n] = b.Prescaler]
           /\ config_baud' = [config_baud EXCEPT ![n] = b.baud]
    /\ UNCHANGED <<tick, rxCount, config_node_id, thread_id_valid_, device,
                   hwVars, thrVars, sem_can, fifo0, fifo1, mailbox,
                   histVars>>

(***************************************************************************)
(* ODriveCAN::start_can_server.  ok1 .. ok4 are the statuses of            *)
(* HAL_CAN_Init, HAL_CAN_ConfigFilter, HAL_CAN_Start and                   *)
(* HAL_CAN_ActivateNotification; the first failure returns false.          *)
(***************************************************************************)
\* a start-up that ignores the four statuses: every step is performed and
\* the worker thread is created whatever they are
start_can_serverUnchecked(n) ==
    /\ pc[n] = "new"
    /\ \E ok1, ok2, ok3, ok4 \in BOOLEAN :
        LET b == set_baud_rate(n, config_baud[n])
        IN  /\ Prescaler' = [Prescaler EXCEPT ![n] = b.Prescaler]
            /\ config_baud' = [config_baud EXCEPT ![n] = b.baud]
            /\ halReady' = [halReady EXCEPT ![n] = ok1]
            /\ filterActive' = [filterActive EXCEPT ![n] = ok2]
            /\ canStarted' = [canStarted EXCEPT ![n] = ok3]
            /\ itRxFifo0' = [itRxFifo0 EXCEPT ![n] = ok4]
            /\ itRxFifo1' = [itRxFifo1 EXCEPT ![n] = ok4]
            /\ thread_id_valid_' = [thread_id_valid_ EXCEPT ![n] = TRUE]
            /\ pc' = [pc EXCEPT ![n] = "entry"]
    /\ UNCHANGED <<tick, rxCount, config_node_id, device, heartbeat_id,
                   lastHeartbeatTick, waitLeft, sem_can, fifo0, fifo1,
                   mailbox, histVars>>

start_can_server(n) ==
    /\ pc[n] = "new"
    /\ \E ok1, ok2, ok3, ok4 \in BOOLEAN :
        LET b == set_baud_rate(n, config_baud[n])
            s1 == ok1
            s2 == s1 /\ ok2
            s3 == s2 /\ ok3
            s4 == s3 /\ ok4
        IN  /\ (~ok1 => ok2 /\ ok3 /\ ok4)
            /\ (~ok2 => ok3 /\ ok4)
            /\ (~ok3 => ok4)
            /\ Prescaler' = [Prescaler EXCEPT ![n] = b.Prescaler]
            /\ config_baud' = [config_baud EXCEPT ![n] = b.baud]
            /\ halReady' = [halReady EXCEPT ![n] = s1]
            /\ filterActive' = [filterActive EXCEPT ![n] = s2]
            /\ canStarted' = [canStarted EXCEPT ![n] = s3]
            /\ itRxFifo0' = [itRxFifo0 EXCEPT ![n] = s4]
            /\ itRxFifo1' = [itRxFifo1 EXCEPT ![n] = s4]
            /\ thread_id_valid_' = [thread_id_valid_ EXCEPT ![n] = s4]
            /\ pc' = [pc EXCEPT ![n] = IF s4 THEN "entry" ELSE "failed"]
    /\ UNCHANGED <<tick, rxCount, config_node_id, device, heartbeat_id,
                   lastHeartbeatTick, waitLeft, sem_can, fifo0, fifo1,
                   mailbox, histVars>>

(***************************************************************************)
(* ODriveCAN::can_server_thread.                                           *)
(***************************************************************************)
\* the locals, set once before the loop
ThreadEntry(n) ==
    /\ pc[n] = "entry"
    /\ heartbeat_id' =
           [heartbeat_id EXCEPT ![n] = HEARTBEAT_BASE + config_node_id[n]]
    /\ lastHeartbeatTick' = [lastHeartbeatTick EXCEPT ![n] = tick]
    /\ waitLeft' = [waitLeft EXCEPT ![n] = SEM_WAIT_TICKS]
    /\ pc' = [pc EXCEPT ![n] = "wait"]
    /\ sinceHeartbeat' = [sinceHeartbeat EXCEPT ![n] = 0]
    /\ UNCHANGED <<tick, rxCount, cfgVars, hwVars, sem_can, fifo0, fifo1,
                   mailbox, rxHbAt, txOkAt, txFailAt>>

\* osSemaphoreWait(sem_can, 10) returns with the semaphore
WaitSignalled(n) ==
    /\ pc[n] = "wait"
    /\ sem_can[device[n]] > 0
    /\ sem_can' = [sem_can EXCEPT ![device[n]] = @ - 1]
    /\ waitLeft' = [waitLeft EXCEPT ![n] = 0]
    /\ pc' = [pc EXCEPT ![n] = "drain"]
    /\ UNCHANGED <<tick, rxCount, cfgVars, hwVars, heartbeat_id,
                   lastHeartbeatTick, fifo0, fifo1, mailbox, histVars>>

\* a wait without timeout: it returns only with the semaphore
WaitForever(n) ==
    /\ pc[n] = "wait"
    /\ FALSE
    /\ UNCHANGED vars

\* osSemaphoreWait(sem_can, 10) returns on its timeout
WaitTimeout(n) ==
    /\ pc[n] = "wait"
    /\ sem_can[device[n]] = 0
    /\ waitLeft[n] = 0
    /\ waitLeft' = [waitLeft EXCEPT ![n] = 0]
    /\ pc' = [pc EXCEPT ![n] = "drain"]
    /\ UNCHANGED <<tick, rxCount, cfgVars, hwVars, heartbeat_id,
                   lastHeartbeatTick, sem_can, fifo0, fifo1, mailbox,
                   histVars>>

\* one turn of while (available()) { read(rxmsg); write(rxmsg); }
Drain(n) ==
    /\ pc[n] = "drain"
    /\ available(n) > 0
    /\ LET rxmsg == read(n)
       IN  /\ mailbox' = [mailbox EXCEPT ![n] =
                  write(@, [id |-> rxmsg.id, isExt |-> rxmsg.isExt,
                            len |-> rxmsg.len, buf |-> rxmsg.buf,
                            from |-> "echo"])]
           /\ rxHbAt' =
                  IF IsHeartbeat(rxmsg) /\ NodeIdOf(rxmsg) \in NodeIds
                  THEN [rxHbAt EXCEPT ![n][NodeIdOf(rxmsg)] = tick]
                  ELSE rxHbAt
    /\ IF Len(fifo0[n]) > 0
       THEN /\ fifo0' = [fifo0 EXCEPT ![n] = Tail(@)]
            /\ UNCHANGED fifo1
       ELSE /\ fifo1' = [fifo1 EXCEPT ![n] = Tail(@)]
            /\ UNCHANGED fifo0
    /\ UNCHANGED <<tick, rxCount, cfgVars, hwVars, thrVars, sem_can,
                   txOkAt, txFailAt, sinceHeartbeat>>

\* the loop is left without looking at available()
DrainDoneEarly(n) ==
    /\ pc[n] = "drain"
    /\ pc' = [pc EXCEPT ![n] = "tick"]
    /\ UNCHANGED <<tick, rxCount, cfgVars, hwVars, heartbeat_id,
                   lastHeartbeatTick, waitLeft, sem_can, fifo0, fifo1,
                   mailbox, histVars>>

\* available() returns 0: the loop is left
DrainDone(n) ==
    /\ pc[n] = "drain"
    /\ available(n) = 0
    /\ pc' = [pc EXCEPT ![n] = "tick"]
    /\ UNCHANGED <<tick, rxCount, cfgVars, hwVars, heartbeat_id,
                   lastHeartbeatTick, waitLeft, sem_can, fifo0, fifo1,
                   mailbox, histVars>>

\* a test that compares the tick values instead of their difference
HeartbeatDueAbsolute(now, last) == now >= last + HEARTBEAT_PERIOD

\* the heartbeat is due when a period has elapsed since the last one
HeartbeatDue(now, last) == TickDiff(now, last) >= HEARTBEAT_PERIOD

\* now = osKernelSysTick(); if due, write(heartbeat); lastHeartbeatTick = now
HeartbeatTick(n) ==
    /\ pc[n] = "tick"
    /\ LET now == tick
       IN  IF HeartbeatDue(now, lastHeartbeatTick[n])
           THEN /\ mailbox' = [mailbox EXCEPT ![n] = write(@, HeartbeatMsg(n))]
                /\ lastHeartbeatTick' = [lastHeartbeatTick EXCEPT ![n] = now]
                /\ sinceHeartbeat' = [sinceHeartbeat EXCEPT ![n] = 0]
           ELSE UNCHANGED <<mailbox, lastHeartbeatTick, sinceHeartbeat>>
    /\ pc' = [pc EXCEPT ![n] = "notify"]
    /\ UNCHANGED <<tick, rxCount, cfgVars, hwVars, heartbeat_id, waitLeft,
                   sem_can, fifo0, fifo1, rxHbAt, txOkAt, txFailAt>>

\* a loop that does not enable the notification again
ActivateNotificationSkipped(n) ==
    /\ pc[n] = "notify"
    /\ waitLeft' = [waitLeft EXCEPT ![n] = SEM_WAIT_TICKS]
    /\ pc' = [pc EXCEPT ![n] = "wait"]
    /\ UNCHANGED <<tick, rxCount, cfgVars, hwVars, heartbeat_id,
                   lastHeartbeatTick, sem_can, fifo0, fifo1, mailbox,
                   histVars>>

\* HAL_CAN_ActivateNotification(handle_, CAN_IT_RX_FIFO0_MSG_PENDING)
ActivateNotification(n) ==
    /\ pc[n] = "notify"
    /\ itRxFifo0' = [itRxFifo0 EXCEPT ![n] = TRUE]
    /\ waitLeft' = [waitLeft EXCEPT ![n] = SEM_WAIT_TICKS]
    /\ pc' = [pc EXCEPT ![n] = "wait"]
    /\ UNCHANGED <<tick, rxCount, cfgVars, halReady, filterActive,
                   canStarted, itRxFifo1, heartbeat_id, lastHeartbeatTick,
                   sem_can, fifo0, fifo1, mailbox, histVars>>

(***************************************************************************)
(* ODriveCAN::set_node_id, called from outside the worker.                 *)
(***************************************************************************)
set_node_id(n, nodeID) ==
    /\ config_node_id[n] # nodeID
    /\ config_node_id' = [config_node_id EXCEPT ![n] = nodeID]
    /\ UNCHANGED <<tick, rxCount, config_baud, Prescaler, thread_id_valid_,
                   device, hwVars, thrVars, sem_can, fifo0, fifo1, mailbox,
                   histVars>>

(***************************************************************************)
(* Interrupt handlers.                                                     *)
(***************************************************************************)
\* HAL_CAN_RxFifo0MsgPendingCallback: raised while FIFO 0 holds a frame and
\* the notification is enabled
RxFifo0MsgPending(n) ==
    /\ itRxFifo0[n]
    /\ Len(fifo0[n]) > 0
    /\ itRxFifo0' = [itRxFifo0 EXCEPT ![n] = FALSE]
    /\ sem_can' = [sem_can EXCEPT ![device[n]] = 1]
    /\ UNCHANGED <<tick, rxCount, cfgVars, halReady, filterActive,
                   canStarted, itRxFifo1, thrVars, fifo0, fifo1, mailbox,
                   histVars>>

(***************************************************************************)
(* The peripheral and the bus.                                             *)
(***************************************************************************)
\* what a receive FIFO holds after the bus delivers f to it
Deliver(q, f) == IF Len(q) < MaxFifo THEN Append(q, f) ELSE q

Listening(n) == canStarted[n] /\ filterActive[n]

\* two devices share the bus; the interfaces of one device are on buses of
\* their own
SameBus(o, n) == device[o] # device[n]

RemoveAt(s, k) == [j \in 1 .. (Len(s) - 1) |-> IF j < k THEN s[j] ELSE s[j + 1]]

\* a frame of another device arrives; filter bank 0 passes every frame
\* into FIFO 0
Arrives(n, f, max) ==
    /\ Listening(n)
    /\ rxCount < max
    /\ Len(fifo0[n]) < MaxFifo
    /\ rxCount' = rxCount + 1
    /\ fifo0' = [fifo0 EXCEPT ![n] = Append(@, f)]
    /\ UNCHANGED <<tick, cfgVars, hwVars, thrVars, sem_can, fifo1, mailbox,
                   histVars>>

FrameArrives(n, f) == Arrives(n, f, MaxRx)

\* the same, in a burst of up to MaxBurst frames
FrameArrivesBurst(n, f) == Arrives(n, f, MaxBurst)

\* mailbox k is transmitted and ACK'd: the other listening nodes of the
\* bus receive the frame; the completion callbacks are empty
TxComplete(n, k) ==
    /\ k \in 1 .. Len(mailbox[n])
    /\ LET m == mailbox[n][k]
       IN  /\ mailbox' = [mailbox EXCEPT ![n] = RemoveAt(@, k)]
           /\ fifo0' = [o \in Nodes |->
                  IF o # n /\ SameBus(o, n) /\ Listening(o)
                  THEN Deliver(fifo0[o], OnWire(m)) ELSE fifo0[o]]
           /\ txOkAt' =
                  IF m.from = "heartbeat"
                  THEN [txOkAt EXCEPT ![n][NodeIdOf(m)] = tick]
                  ELSE txOkAt
    /\ UNCHANGED <<tick, rxCount, cfgVars, hwVars, thrVars, sem_can, fifo1,
                   rxHbAt, txFailAt, sinceHeartbeat>>

\* mailbox k is transmitted and not ACK'd, and the peripheral gives the
\* frame up; the abort callbacks are empty
TxNoAck(n, k) ==
    /\ k \in 1 .. Len(mailbox[n])
    /\ LET m == mailbox[n][k]
       IN  /\ mailbox' = [mailbox EXCEPT ![n] = RemoveAt(@, k)]
           /\ txFailAt' =
                  IF m.from = "heartbeat"
                  THEN [txFailAt EXCEPT ![n][NodeIdOf(m)] = tick]
                  ELSE txFailAt
    /\ UNCHANGED <<tick, rxCount, cfgVars, hwVars, thrVars, sem_can, fifo0,
                   fifo1, rxHbAt, txOkAt, sinceHeartbeat>>

\* the clock runs from the moment the first server is up
ClockRuns ==
    /\ \E n \in Nodes : pc[n] \notin {"new", "entry"}
    /\ \A n \in Nodes : pc[n] # "entry"

\* the code runs to completion between two observations of the clock: every
\* worker is blocked in its wait, no interrupt is pending and every queued
\* frame has left its mailbox
Quiescent ==
    /\ \A n \in Nodes : mailbox[n] = <<>>
    /\ \A n \in Nodes :
           \/ pc[n] \in {"new", "failed"}
           \/ /\ pc[n] = "wait"
              /\ sem_can[device[n]] = 0
              /\ ~(itRxFifo0[n] /\ Len(fifo0[n]) > 0)

\* the ticks since a running worker set lastHeartbeatTick, d ticks later;
\* counted up to the range of the tick counter
Since(n, d) ==
    IF pc[n] \in {"new", "failed"} THEN 0
    ELSE IF sinceHeartbeat[n] + d < TickModulus THEN sinceHeartbeat[n] + d
    ELSE TickModulus

\* d ticks pass: the kernel tick advances and the pending waits run down
Advance(d) ==
    /\ ClockRuns
    /\ Quiescent
    /\ tick' = TickAdd(tick, d)
    /\ waitLeft' = [n \in Nodes |-> IF waitLeft[n] > d THEN waitLeft[n] - d ELSE 0]
    /\ rxHbAt' = [n \in Nodes |-> [i \in NodeIds |-> Expire(rxHbAt[n][i], d)]]
    /\ txOkAt' = [n \in Nodes |-> [i \in NodeIds |-> Expire(txOkAt[n][i], d)]]
    /\ txFailAt' = [n \in Nodes |-> [i \in NodeIds |-> Expire(txFailAt[n][i], d)]]
    /\ sinceHeartbeat' = [n \in Nodes |-> Since(n, d)]
    /\ UNCHANGED <<rxCount, cfgVars, hwVars, pc, heartbeat_id,
                   lastHeartbeatTick, sem_can, fifo0, fifo1, mailbox>>

\* the kernel tick advances
Tick ==
    /\ Elapsed + TickQuantum <= MaxElapsed
    /\ Advance(TickQuantum)

\* a lease window passes with the worker not scheduled
LongDelay ==
    /\ Elapsed <= MaxElapsed
    /\ Advance(LEASE_WINDOW)

\* nothing happens on the bus until the wait of the blocked worker runs out
WaitElapses(n) ==
    /\ pc[n] = "wait"
    /\ waitLeft[n] > 0
    /\ Advance(waitLeft[n])

\* the worker is not scheduled for almost the range of the tick counter
StallTicks == TickModulus - HEARTBEAT_PERIOD - SEM_WAIT_TICKS

Stall(n) ==
    /\ pc[n] = "wait"
    /\ sinceHeartbeat[n] + StallTicks < TickModulus
    /\ Advance(StallTicks)

\* the kernel tick of the two-node specification
TickTwo ==
    /\ Elapsed + TickQuantum <= MaxElapsedTwo
    /\ Advance(TickQuantum)

(***************************************************************************)
(* Specifications.                                                         *)
(***************************************************************************)
Worker(n) ==
    \/ start_can_server(n)
    \/ ThreadEntry(n)
    \/ WaitSignalled(n)
    \/ WaitTimeout(n)
    \/ Drain(n)
    \/ DrainDone(n)
    \/ HeartbeatTick(n)
    \/ ActivateNotification(n)
    \/ RxFifo0MsgPending(n)
    \/ \E k \in 1 .. NumTxMailboxes : TxComplete(n, k)
    \/ \E k \in 1 .. NumTxMailboxes : TxNoAck(n, k)

\* one node; the rest of the bus is the environment
Next ==
    \/ Worker("A")
    \/ \E i \in NodeIds : set_node_id("A", i)
    \/ \E f \in Inbound : FrameArrives("A", f)
    \/ Tick
    \/ LongDelay

Spec == Init /\ [][Next]_vars

\* two nodes with the same configuration on one bus
NextTwo ==
    \/ \E n \in Nodes : Worker(n)
    \/ TickTwo

SpecTwo == Init /\ [][NextTwo]_vars

\* the steps of can_server_thread
Thread(n) ==
    \/ ThreadEntry(n)
    \/ WaitSignalled(n)
    \/ WaitTimeout(n)
    \/ Drain(n)
    \/ DrainDone(n)
    \/ HeartbeatTick(n)
    \/ ActivateNotification(n)

\* one node that receives a burst of frames; the worker runs whenever it can
\* and a raised interrupt is served
NextBurst ==
    \/ Worker("A")
    \/ \E f \in Inbound : FrameArrivesBurst("A", f)
    \/ TickTwo

SpecBurst ==
    /\ Init
    /\ [][NextBurst]_vars
    /\ WF_vars(Thread("A"))
    /\ WF_vars(RxFifo0MsgPending("A"))

\* one node on a silent bus: no frame arrives and no heartbeat is ACK'd; the
\* worker runs whenever it can and the kernel tick wraps around
NextSilent ==
    \/ start_can_server("A")
    \/ ThreadEntry("A")
    \/ WaitTimeout("A")
    \/ DrainDone("A")
    \/ HeartbeatTick("A")
    \/ ActivateNotification("A")
    \/ \E k \in 1 .. NumTxMailboxes : TxNoAck("A", k)
    \/ WaitElapses("A")

SpecSilent ==
    /\ Init
    /\ [][NextSilent]_vars
    /\ WF_vars(Thread("A"))
    /\ WF_vars(\E k \in 1 .. NumTxMailboxes : TxNoAck("A", k))
    /\ WF_vars(WaitElapses("A"))

\* one device with two interfaces, each on a bus of its own; frames arrive
\* on interface A only
NextDevice ==
    \/ \E n \in Nodes : Worker(n)
    \/ \E f \in Inbound : FrameArrives("A", f)
    \/ TickTwo

SpecDevice == InitDevice /\ [][NextDevice]_vars

\* the same, with the worker held up now and then
NextWrap ==
    \/ NextSilent
    \/ Stall("A")

SpecWrap == Init /\ [][NextWrap]_vars

\* the configuration of two interfaces: the rate is set any number of times
\* and the server is started
NextBaud ==
    \E n \in Nodes :
        \/ \E baudRate \in BaudInputs : SetBaudRate(n, baudRate)
        \/ start_can_server(n)

SpecBaud == Init /\ [][NextBaud]_vars

(***************************************************************************)
(* What a step puts into a transmit mailbox.                               *)
(***************************************************************************)
\* the step queues a frame for transmission
Queued(n) == Len(mailbox'[n]) = Len(mailbox[n]) + 1

\* the frame the step queues
Sent(n) == mailbox'[n][Len(mailbox'[n])]

\* the step queues the worker's own heartbeat
QueuedHeartbeat(n) == Queued(n) /\ Sent(n).from = "heartbeat"

\* the step queues a regular (non-heartbeat) frame
QueuedRegular(n) == Queued(n) /\ ~IsHeartbeat(Sent(n))

\* the node ID the worker sends its heartbeats with
OwnId(n) == heartbeat_id[n] - HEARTBEAT_BASE

\* the IDs rule a does not make taken
FreeIds(n) == {i \in NodeIds : ~is_taken(n, i)}

\* the IDs rule b allows the node to consider self-assigned
SelfHeldIds(n) == {i \in NodeIds : is_self_held(n, i)}

\* a heartbeat of another node with the worker's ID was read after the
\* worker's last ACK'd heartbeat, both within the last second
Demoted(n) ==
    /\ Fresh(txOkAt[n][OwnId(n)])
    /\ Fresh(rxHbAt[n][OwnId(n)])
    /\ TickDiff(tick, rxHbAt[n][OwnId(n)]) < TickDiff(tick, txOkAt[n][OwnId(n)])

\* the step reads a frame from a receive FIFO and hands it to write
ReadStep(n) ==
    /\ pc[n] = "drain"
    /\ Len(fifo0'[n]) + Len(fifo1'[n]) < available(n)

\* the step is a heartbeat tick that hands the heartbeat to write
HeartbeatAttempt(n) ==
    /\ pc[n] = "tick"
    /\ pc'[n] = "notify"
    /\ HeartbeatDue(tick, lastHeartbeatTick[n])

\* the step calls write
WriteCalled(n) == ReadStep(n) \/ HeartbeatAttempt(n)

(***************************************************************************)
(* Claims.                                                                 *)
(***************************************************************************)
\* C1 (rule d): a regular frame is queued for transmission only while the
\* node's own ID is self-held, i.e. one of its heartbeats with that ID was
\* ACK'd within the last second.
C1_RegularOnlyWhileSelfHeld ==
    [][\A n \in Nodes : QueuedRegular(n) => is_self_held(n, OwnId(n))]_vars

\* C2 (rule c): at a heartbeat tick the heartbeat is queued only if its ID
\* is not taken at that moment (no heartbeat of another node with that ID
\* read, and no own heartbeat with that ID left un-ACK'd, within the last
\* second).
C2_NoHeartbeatOnTakenId ==
    [][\A n \in Nodes : QueuedHeartbeat(n) => ~is_taken(n, OwnId(n))]_vars

\* C3: at no instant do two nodes of one bus both hold the same node ID.
C3_NoSharedId ==
    \A i \in NodeIds : ~(is_self_held("A", i) /\ is_self_held("B", i))

\* C4 (rule a, reception): from the moment a heartbeat of another node with
\* ID X is read and for the following second the node treats X as taken: it
\* queues no heartbeat frame with ID X.
C4_ReceivedIdIsTaken ==
    [][\A n \in Nodes :
          (Queued(n) /\ IsHeartbeat(Sent(n)))
              => ~Fresh(rxHbAt'[n][NodeIdOf(Sent(n))])]_vars

\* C5 (rule a, transmission): for a second after one of its heartbeats with
\* ID X was not ACK'd the node treats X as taken and is unassigned: it queues
\* no heartbeat with ID X.
C5_FailedIdIsTaken ==
    [][\A n \in Nodes :
          QueuedHeartbeat(n) => ~Fresh(txFailAt[n][OwnId(n)])]_vars

\* C6 (rule b): once the last ACK'd heartbeat with the node's ID is a second
\* old and none was ACK'd since, no regular frame is queued.
C6_NoRegularAfterExpiry ==
    [][\A n \in Nodes :
          QueuedRegular(n) => txOkAt[n][OwnId(n)] # Expired]_vars

\* C7: while a heartbeat of another node with the node's own ID is fresher
\* than the node's last ACK'd heartbeat, the node is unassigned: it queues no
\* regular frame.
C7_DemotedSendsNothing ==
    [][\A n \in Nodes : QueuedRegular(n) => ~Demoted(n)]_vars

\* C8: when every ID of the ID space is taken, no heartbeat is queued at the
\* heartbeat tick.
C8_NoHeartbeatWhenExhausted ==
    [][\A n \in Nodes : QueuedHeartbeat(n) => FreeIds(n) # {}]_vars

\* C9: a node never holds more than one node ID.
C9_AtMostOneSelfHeld ==
    \A n \in Nodes : Cardinality(SelfHeldIds(n)) <= 1

\* C9 witness: the node ID was changed after the worker started, a foreign
\* frame was received, and the node holds an ID.
C9_Witness ==
    /\ pc["A"] = "wait"
    /\ config_node_id["A"] # OwnId("A")
    /\ rxCount > 0
    /\ SelfHeldIds("A") = {OwnId("A")}

\* C10: when exactly one ID of the ID space is free, the heartbeat queued at
\* the heartbeat tick carries that ID.
C10_CandidateIsFirstFree ==
    [][\A n \in Nodes :
          (QueuedHeartbeat(n) /\ Cardinality(FreeIds(n)) = 1)
              => OwnId(n) \in FreeIds(n)]_vars

\* C11: every frame handed to write gets an outcome: it is put into a
\* transmit mailbox, from where the bus resolves it to ACK'd or not ACK'd;
\* this includes a write attempted while no transmit mailbox is free.
C11_EverySendResolves ==
    [][\A n \in Nodes : WriteCalled(n) => Queued(n)]_vars

\* the worker is in its loop
Running(n) == pc[n] \in {"wait", "drain", "tick", "notify"}

\* the step is the heartbeat handling of one loop iteration
TickStep(n) == pc[n] = "tick" /\ pc'[n] = "notify"

\* C12: on a silent bus every wait of the worker is bounded by 10 ticks, the
\* heartbeat is queued in exactly the first loop iteration in which a
\* heartbeat period has elapsed since the last attempt, so that never more
\* than a period and one wait pass without an attempt, and a running worker
\* queues a heartbeat again and again.
C12_BoundedWait ==
    /\ [](\A n \in Nodes : waitLeft[n] <= SEM_WAIT_TICKS)
    /\ [](\A n \in Nodes :
            Running(n) => sinceHeartbeat[n] < HEARTBEAT_PERIOD + SEM_WAIT_TICKS)
    /\ [][\A n \in Nodes :
            TickStep(n) =>
                (QueuedHeartbeat(n) <=> sinceHeartbeat[n] >= HEARTBEAT_PERIOD)]_vars
    /\ (<>Running("A") => []<><<QueuedHeartbeat("A")>>_vars)

\* C12 witness: the worker has just queued a heartbeat, not its first one.
C12_Witness ==
    /\ pc["A"] = "notify"
    /\ Len(mailbox["A"]) = 1
    /\ sinceHeartbeat["A"] = 0
    /\ txFailAt["A"][OwnId("A")] \notin {None, Expired}

\* C13: every heartbeat the node queues has an identifier 0x700 + node ID, a
\* length of 8 bytes and the node's unique serial number as payload.
C13_HeartbeatCarriesSerial ==
    [][\A n \in Nodes :
          QueuedHeartbeat(n) =>
              /\ IsHeartbeat(Sent(n))
              /\ Sent(n).buf = NodeSerial(n)]_vars

\* the step is the receive interrupt of interface n
IsrStep(n) == itRxFifo0[n] /\ ~itRxFifo0'[n]

\* the step is the worker of interface n taking the semaphore
SignalTaken(n) ==
    /\ pc[n] = "wait"
    /\ pc'[n] = "drain"
    /\ sem_can'[device[n]] < sem_can[device[n]]

\* C14: the interfaces of one device are independent: the receive interrupt
\* of one interface leaves the semaphore the other interface's worker waits
\* on as it is, and the worker of interface B, on which no frame arrives, is
\* not woken by a signal.
C14_InterfacesIndependent ==
    [][/\ \A n, o \in Nodes :
              (o # n /\ IsrStep(n)) =>
                  sem_can'[device[o]] = sem_can[device[o]]
       /\ ~SignalTaken("B")]_vars

\* C15: start_can_server stops at the first of its four steps that fails
\* and performs none of the later ones; the worker thread exists, and
\* thread_id_valid_ is set, only after all four succeeded; a failed start is
\* final, nothing is retried.
C15_StartupFailureIsFatal ==
    /\ [](\A n \in Nodes :
            /\ filterActive[n] => halReady[n]
            /\ canStarted[n] => filterActive[n]
            /\ itRxFifo1[n] => canStarted[n]
            /\ thread_id_valid_[n] <=> itRxFifo1[n]
            /\ (pc[n] = "entry" \/ Running(n)) <=> thread_id_valid_[n]
            /\ pc[n] = "failed" <=> (pc[n] # "new" /\ ~thread_id_valid_[n]))
    /\ [][\A n \in Nodes :
            pc[n] = "failed" =>
                /\ pc'[n] = "failed"
                /\ halReady'[n] = halReady[n]
                /\ filterActive'[n] = filterActive[n]
                /\ canStarted'[n] = canStarted[n]
                /\ ~itRxFifo0'[n] /\ ~itRxFifo1'[n]]_vars

\* C15 witness: the start failed at its third step, HAL_CAN_Start.
C15_Witness ==
    /\ pc["A"] = "failed"
    /\ halReady["A"]
    /\ filterActive["A"]
    /\ ~canStarted["A"]
    /\ ~thread_id_valid_["A"]

\* C16: as long as fewer ticks than the range of the tick counter have
\* elapsed since lastHeartbeatTick was set, the test now - lastHeartbeatTick
\* >= 100 is true exactly if 100 or more ticks have elapsed, also when the
\* counter wrapped around in between.
C16_DueTestToleratesWrap ==
    \A n \in Nodes :
        (Running(n) /\ sinceHeartbeat[n] < TickModulus) =>
            (HeartbeatDue(tick, lastHeartbeatTick[n])
                 <=> sinceHeartbeat[n] >= HEARTBEAT_PERIOD)

\* C16 witness: the heartbeat is due and the tick counter wrapped around
\* since the last one.
C16_Witness ==
    /\ pc["A"] = "tick"
    /\ tick < lastHeartbeatTick["A"]
    /\ sinceHeartbeat["A"] >= HEARTBEAT_PERIOD
    /\ sinceHeartbeat["A"] < TickModulus

\* C17: in every loop iteration the receive FIFOs are drained before the
\* heartbeat is handled: the worker gets to the heartbeat handling only from
\* the drain loop and only when available() returned 0, each frame read is
\* handed to write in the step that reads it, a heartbeat is queued only in
\* the heartbeat handling, and each turn of the drain loop takes one frame
\* off the FIFOs, so the loop ends when no more frames arrive.
C17_DrainBeforeTick ==
    [][\A n \in Nodes :
          /\ QueuedHeartbeat(n) => pc[n] = "tick"
          /\ (pc[n] # "tick" /\ pc'[n] = "tick") =>
                 (pc[n] = "drain" /\ available(n) = 0)
          /\ ReadStep(n) =>
                 /\ Len(fifo0'[n]) + Len(fifo1'[n]) = available(n) - 1
                 /\ pc'[n] = "drain"
                 /\ \/ Len(mailbox[n]) = NumTxMailboxes
                    \/ /\ Queued(n)
                       /\ OnWire(Sent(n)) = read(n)]_vars

\* C17 witness: frames were read and forwarded, then the heartbeat was
\* queued, in one iteration.
C17_Witness ==
    /\ pc["A"] = "notify"
    /\ Len(mailbox["A"]) = 3
    /\ mailbox["A"][1].from = "echo"
    /\ mailbox["A"][2].from = "echo"
    /\ mailbox["A"][3].from = "heartbeat"
    /\ fifo0["A"] # <<>>

\* the four standard rates
StandardRates ==
    {CAN_BAUD_125K, CAN_BAUD_250K, CAN_BAUD_500K, CAN_BAUD_1000K}

\* C19: whatever the prescaler and the stored rate are, set_baud_rate called
\* with 125k, 250k, 500k, 1000k leaves that rate stored and the prescaler
\* 16, 8, 4, 2, the product of the two being the same for the four; called
\* with any other value it leaves both as they are; so once a rate was
\* accepted, the prescaler and the stored rate always fit each other.
C19_BaudRateTable ==
    \A n \in Nodes :
        /\ \A baudRate \in BaudInputs :
               LET b == set_baud_rate(n, baudRate)
               IN  /\ baudRate = CAN_BAUD_125K => b.Prescaler = 16
                   /\ baudRate = CAN_BAUD_250K => b.Prescaler = 8
                   /\ baudRate = CAN_BAUD_500K => b.Prescaler = 4
                   /\ baudRate = CAN_BAUD_1000K => b.Prescaler = 2
                   /\ baudRate \in StandardRates =>
                          /\ b.baud = baudRate
                          /\ b.Prescaler * b.baud = 16 * CAN_BAUD_125K
                   /\ baudRate \notin StandardRates =>
                          /\ b.Prescaler = Prescaler[n]
                          /\ b.baud = config_baud[n]
        /\ Prescaler[n] # 0 =>
               Prescaler[n] * config_baud[n] = 16 * CAN_BAUD_125K

\* C19 witness: set_baud_rate was called with 125k on one interface and
\* with 1000k on the other, before either server was started.
C19_Witness ==
    /\ pc["A"] = "new"
    /\ Prescaler["A"] = 16
    /\ config_baud["A"] = CAN_BAUD_125K
    /\ Prescaler["B"] = 2
    /\ config_baud["B"] = CAN_BAUD_1000K

\* C20: no wake-up is lost: while the worker is blocked in its wait with a
\* frame in the receive FIFO, the semaphore is released or the receive
\* interrupt is enabled and will release it; a frame in the receive FIFO of
\* a running worker is eventually read; and the notification of a running
\* worker, once disabled by the interrupt, is eventually enabled again.
C20_NoLostWakeup ==
    /\ [](\A n \in Nodes :
            (pc[n] = "wait" /\ Len(fifo0[n]) > 0) =>
                (itRxFifo0[n] \/ sem_can[device[n]] > 0))
    /\ ((Running("A") /\ Len(fifo0["A"]) > 0) ~> (Len(fifo0["A"]) = 0))
    /\ ((Running("A") /\ ~itRxFifo0["A"]) ~> itRxFifo0["A"])

\* C20 witness: the worker took the signal and left the drain loop, then a
\* frame arrived while the notification was still disabled.
C20_Witness ==
    /\ pc["A"] = "notify"
    /\ Len(fifo0["A"]) > 0
    /\ ~itRxFifo0["A"]
    /\ sem_can[device["A"]] = 0

=============================================================================
